---- MODULE Spec2Model ----
(***************************************************************************)
(* Model of the batch audio-generation pipeline of fish_audio_util:        *)
(*   - BatchProcessThread.run / cancel      (src/ui/main_window.py)        *)
(*   - MainWindow.start_batch_processing, stop_batch_processing,           *)
(*     on_batch_finished                    (src/ui/main_window.py)        *)
(*   - FileProcessor.read_text_file, get_output_path, save_audio           *)
(*                                          (src/core/file_processor.py)   *)
(*   - AudioGenerator (voice catalogue, cache, generate_audio)             *)
(*                                          (src/core/audio_generator.py)  *)
(* Three specifications share the variables: Spec (one window and its     *)
(* batch worker), SpecVoices (the generator of the window and its voice    *)
(* load threads) and SpecGenerator (an AudioGenerator object and a single  *)
(* caller of its methods).                                                 *)
(* Strings built with f-strings are modelled as sequences of tokens, the   *)
(* interpolated numbers being Nat tokens, so that what a message states    *)
(* can be examined.                                                        *)
(***************************************************************************)
EXTENDS Integers, Sequences, FiniteSets, TLC

(* ------------------------------ bounds -------------------------------- *)

\* longest file list a folder scan hands to one batch
MaxFiles == 3

\* VoiceLoadThread objects that can be alive at one time
MaxLoaders == 2

\* clock ticks of one behaviour
MaxTicks == 3

\* texts in one batch_generate call
MaxTexts == 2

\* input files in the folder of the window specification
MaxFolder == 1

(* ------------------------- program constants -------------------------- *)

\* keys of FileProcessor.audio_formats, also the items of format_combo
audio_formats == {"wav", "mp3", "m4a"}

\* seconds a fetched voice list is served from the cache
CacheWindow == 300

\* limit passed to get_public_models by get_available_voices
PublicLimit == 20

(* ------------------------------ state --------------------------------- *)

VARIABLES
    \* MainWindow
    text_files,      \* MainWindow.text_files: the scanned input paths
    voice_combo,     \* currentData() of voice_combo; "NoItem" when count() = 0
    format_combo,    \* currentText() of format_combo
    start_btn,       \* start_btn.isEnabled()
    stop_btn,        \* stop_btn.isEnabled()
    batch_thread,    \* MainWindow.batch_thread: "None", "Thread" or "Second"
    dialog,          \* the last QMessageBox the window has shown
    \* ("Second": a thread object made while the one before it was still
    \* referenced; that one is no longer followed)
    \* BatchProcessThread (the object batch_thread refers to)
    pc,              \* position of run()
    files,           \* self.files
    voice_id,        \* self.voice_id
    output_format,   \* self.output_format
    worker_client,   \* self.audio_generator.client: "None" or "Session"
    is_cancelled,    \* self.is_cancelled
    total_files,     \* local total_files
    success_count,   \* local success_count
    failed_count,    \* local failed_count
    i,               \* loop index of enumerate(self.files)
    text_content,    \* local text_content
    audio_data,      \* local audio_data
    output_path,     \* local output_path
    exc,             \* str(e) of the exception the per-file handler caught
    events,          \* the signals run() has emitted, in emission order
    flag_reads,      \* positions of run() at which is_cancelled was read
    writes,          \* the files save_audio has opened for writing, in order
    calls,           \* the calls run() has made: <<operation, file index>>
    cancel_at,       \* phase and index of run() when cancel() was first called
    \* AudioGenerator (MainWindow.audio_generator) and its environment
    fish_available,  \* FISH_AUDIO_AVAILABLE: the SDK could be imported
    api_key,         \* self.api_key ("" when unset)
    client,          \* self.client: "None" or the key its Session was made with
    voices_cache,    \* self._voices_cache: None or a list of voices
    cache_timestamp, \* self._cache_timestamp
    now,             \* time.time()
    \* VoiceLoadThread objects started by MainWindow.refresh_voices
    loader,          \* per thread: position and locals of get_available_voices
    loaded,          \* per thread: the signal its run() has emitted
    \* a caller using the AudioGenerator object directly
    last_call,       \* the last method called on it and what the call did
    \* the file system under the output folder, and a caller using the
    \* FileProcessor object directly
    \* (the worker's own writes are kept in writes)
    disk,            \* whether the folder exists, and the bytes of each file
    last_save        \* the last get_output_path/save_audio pair called

\* the window's widgets and fields
uiVars == <<text_files, voice_combo, format_combo, start_btn, stop_btn,
            batch_thread, dialog>>

\* the fields BatchProcessThread.__init__ sets
cfgVars == <<files, voice_id, output_format, worker_client>>

\* the locals of run()
runVars == <<pc, total_files, success_count, failed_count, i, text_content,
             audio_data, output_path, exc>>

\* what run() has done so far
obsVars == <<events, flag_reads, writes, calls>>

batchVars == <<uiVars, cfgVars, runVars, obsVars, is_cancelled, cancel_at>>

catVars == <<fish_available, api_key, client, voices_cache, cache_timestamp,
             now, loader, loaded, last_call>>

fsVars == <<disk, last_save>>

vars == <<batchVars, catVars, fsVars>>

(* ------------------------------- paths --------------------------------- *)

\* an input path: folder/<stem><ext>; all files of a scan share the folder
Path(stem, ext) == [stem |-> stem, ext |-> ext]

\* position of an extension in the lexicographic order of the suffixes used
\* ("a.md" < "a.text" < "a.txt")
ExtRank(ext) == CASE ext = ".md" -> 1 [] ext = ".text" -> 2 [] OTHER -> 3

StemRank(stem) == CASE stem = "a" -> 1 [] stem = "b" -> 2 [] OTHER -> 3

\* lexicographic order of two paths of one folder
PathLess(p, q) ==
    \/ StemRank(p.stem) < StemRank(q.stem)
    \/ p.stem = q.stem /\ ExtRank(p.ext) < ExtRank(q.ext)

Stems == {"a", "b"}

Exts == {".txt", ".md"}

InputPaths == {Path(s, e) : s \in Stems, e \in Exts}

\* results of FileProcessor.scan_text_files: de-duplicated, sorted
ScanResults ==
    {s \in UNION {[1..n -> InputPaths] : n \in 0..MaxFiles} :
        \A j \in 1..(Len(s) - 1) : PathLess(s[j], s[j + 1])}

\* os.path.basename(file_path)
basename(p) == <<p.stem, p.ext>>

\* FileProcessor.get_output_path: same directory, stem, new extension;
\* raises ValueError for an unsupported format
get_output_path(p, fmt) ==
    IF fmt \notin audio_formats
      THEN [raised |-> TRUE,  value |-> Path("", "")]
      ELSE [raised |-> FALSE, value |-> Path(p.stem, fmt)]

NoPath == Path("", "")

(* ------------------------------ signals -------------------------------- *)

\* the pieces of a formatted message: literal text and interpolated numbers
Str(str) == [t |-> "str", s |-> str, n |-> 0]

Num(num) == [t |-> "num", s |-> "", n |-> num]

NoName == <<>>

ProgressUpdated(cur, tot) ==
    [sig |-> "progress_updated", cur |-> cur, total |-> tot,
     name |-> NoName, ok |-> FALSE, msg |-> <<>>]

FileProcessed(name, ok, msg) ==
    [sig |-> "file_processed", cur |-> 0, total |-> 0,
     name |-> name, ok |-> ok, msg |-> msg]

Finished(ok, msg) ==
    [sig |-> "finished", cur |-> 0, total |-> 0,
     name |-> NoName, ok |-> ok, msg |-> msg]

LogMessage(msg) ==
    [sig |-> "log_message", cur |-> 0, total |-> 0,
     name |-> NoName, ok |-> FALSE, msg |-> msg]

(* --------------------------- FileProcessor ----------------------------- *)

\* what the environment holds at a path when it is read
FileStates == {"missing", "unreadable", "whitespace", "text"}

\* FileProcessor.read_text_file: raises for a missing or unreadable file,
\* returns the stripped content otherwise ("" for whitespace-only content)
read_text_file(st) ==
    CASE st = "missing"    -> [raised |-> TRUE,  value |-> "FileNotFoundError"]
      [] st = "unreadable" -> [raised |-> TRUE,  value |-> "PermissionError"]
      [] st = "whitespace" -> [raised |-> FALSE, value |-> ""]
      [] OTHER             -> [raised |-> FALSE, value |-> "text"]

\* a save_audio without the test of its data
save_audio_outcomes_unchecked(data) == {"ok", "OSError", "IOError"}

\* outcomes of FileProcessor.save_audio(audio_data, output_path)
\*   "ValueError"   empty data, nothing touched
\*   "OSError"      makedirs/open failed, nothing written
\*   "IOError"      the file was opened (truncated) but is empty afterwards
\*   "ok"           written and verified
save_audio_outcomes(data) ==
    IF data \in {"", "None"} THEN {"ValueError"}
    ELSE {"ok", "OSError", "IOError"}

\* the paths get_output_path can return for the input paths
OutputPaths == {Path(p.stem, fmt) : p \in InputPaths, fmt \in audio_formats}

\* a folder (dir: it exists) without output files
EmptyDisk(dir) == [dir |-> dir, files |-> [p \in OutputPaths |-> "absent"]]

\* what save_audio(data, path) leaves on the disk d for each outcome:
\* nothing for empty data (the test of lines 153-154 precedes makedirs);
\* for an OSError the folder may have been made (lines 158-160) before
\* open failed; an opened file is truncated (line 163) and holds the data
\* once written
save_audio_disk(o, data, path, d) ==
    CASE o = "ValueError" -> {d}
      [] o = "OSError" -> {d, [d EXCEPT !.dir = TRUE]}
      [] o = "IOError" -> {[dir |-> TRUE,
                            files |-> [d.files EXCEPT ![path] = ""]]}
      [] OTHER -> {[dir |-> TRUE,
                    files |-> [d.files EXCEPT ![path] = data]]}

\* open(path, 'rb').read(): the bytes of the file
read_bytes(d, path) == d.files[path]

(* --------------------------- AudioGenerator ---------------------------- *)

\* str.strip(): the texts used are the empty one, a blank one and a
\* non-blank one
strip(text) == IF text \in {"", "   ", "\n"} THEN "" ELSE text

\* Python's truth value of a voice id: None and "" are false
NoVoice(voice) == voice \in {"None", ""}

\* a generate_audio that validates its arguments after the mock branch
generate_audio_outcomes_late(text, voice, cl) ==
    IF cl = "None"
      THEN {[raised |-> FALSE, value |-> "dummy_wav",
             did |-> {"sleep", "dummy"}]}
    ELSE IF strip(text) = ""
      THEN {[raised |-> TRUE, value |-> "ValueError: text", did |-> {"tts"}]}
    ELSE IF NoVoice(voice)
      THEN {[raised |-> TRUE, value |-> "ValueError: voice", did |-> {"tts"}]}
    ELSE {[raised |-> FALSE, value |-> "audio", did |-> {"tts"}],
          [raised |-> TRUE,  value |-> "ValueError: empty audio",
           did |-> {"tts"}],
          [raised |-> TRUE,  value |-> "", did |-> {"tts"}]}

\* outcomes of AudioGenerator.generate_audio(text, voice) on a generator
\* whose client is cl ("None" standing for the three tests of line 142):
\* validation first, then the placeholder payload in mock mode, else the
\* backend (which may fail or return no data); did is what the call has
\* done besides validating: slept, built the placeholder, asked the backend
generate_audio_outcomes(text, voice, cl) ==
    IF strip(text) = ""
      THEN {[raised |-> TRUE, value |-> "ValueError: text", did |-> {}]}
    ELSE IF NoVoice(voice)
      THEN {[raised |-> TRUE, value |-> "ValueError: voice", did |-> {}]}
    ELSE IF cl = "None"
      THEN {[raised |-> FALSE, value |-> "dummy_wav",
             did |-> {"sleep", "dummy"}]}
    ELSE {[raised |-> FALSE, value |-> "audio", did |-> {"tts"}],
          [raised |-> TRUE,  value |-> "ValueError: empty audio",
           did |-> {"tts"}],
          [raised |-> TRUE,  value |-> "", did |-> {"tts"}]}

(* ------------------------ BatchProcessThread.run ----------------------- *)

\* run() is modelled statement by statement. The statements outside the
\* per-file try (len, the signal emissions, the two flag tests) raise nothing
\* for a list of paths, so the outer handler of lines 161-163 has no
\* position of its own: reaching it would show as a position outside the
\* ones below.

\* positions of run() between the cancel check of an iteration and the
\* per-file event of that iteration
InFlight == {"progress", "read", "generate", "outpath", "save", "emit_ok",
             "handler"}

\* QThread.isRunning(): run() has been started and has not returned
Running == pc \notin {"none", "done"}

Emit(e) == events' = Append(events, e)

Call(op) == calls' = calls \cup {<<op, i + 1>>}

\* lines 96-100
RunBegin ==
    /\ pc = "begin"
    /\ total_files' = Len(files)
    /\ success_count' = 0
    /\ failed_count' = 0
    /\ Emit(LogMessage(<<Str("start batch of"), Num(Len(files)),
                          Str("files")>>))
    /\ i' = 0
    /\ pc' = "loop"
    /\ UNCHANGED <<uiVars, cfgVars, is_cancelled, cancel_at, text_content,
                   audio_data, output_path, exc, flag_reads, writes, calls>>
    /\ UNCHANGED catVars
    /\ UNCHANGED fsVars

\* the loop head without the cancel check
LoopTarget_nocancel(exhausted, cancelled) ==
    IF exhausted THEN "final" ELSE "progress"

\* the loop head entering the body past the progress signal
LoopTarget_noprogress(exhausted, cancelled) ==
    IF exhausted THEN "final"
    ELSE IF cancelled THEN "final"
    ELSE "read"

\* where the loop head goes: lines 102-105
LoopTarget(exhausted, cancelled) ==
    IF exhausted THEN "final"
    ELSE IF cancelled THEN "final"
    ELSE "progress"

LoopHead ==
    /\ pc = "loop"
    /\ pc' = LoopTarget(i >= total_files, is_cancelled)
    /\ IF i < total_files
         THEN /\ flag_reads' = flag_reads \cup {"loop"}
              /\ IF is_cancelled
                   THEN Emit(LogMessage(<<Str("cancelled by user")>>))
                   ELSE UNCHANGED events
         ELSE UNCHANGED <<flag_reads, events>>
    /\ UNCHANGED <<uiVars, cfgVars, is_cancelled, cancel_at, total_files,
                   success_count, failed_count, i, text_content, audio_data,
                   output_path, exc, writes, calls>>
    /\ UNCHANGED catVars
    /\ UNCHANGED fsVars

\* line 109
EmitProgress ==
    /\ pc = "progress"
    /\ Emit(ProgressUpdated(i, total_files))
    /\ pc' = "read"
    /\ UNCHANGED <<uiVars, cfgVars, is_cancelled, cancel_at, total_files,
                   success_count, failed_count, i, text_content, audio_data,
                   output_path, exc, flag_reads, writes, calls>>
    /\ UNCHANGED catVars
    /\ UNCHANGED fsVars

\* an exception of the per-file try ending the loop
ExceptTarget_abort == "final"

\* where an exception raised inside the per-file try goes: line 138
ExceptTarget == "handler"

\* a failed file that is not counted
failed_after_forget(f) == f

\* the counter after a failed file: lines 119 and 145
failed_after(f) == f + 1

\* a worker that takes no text for blank
blank_never(text) == FALSE

\* not text_content.strip(), line 113
blank(text) == strip(text) = ""

\* lines 112-122
ReadFile ==
    /\ pc = "read"
    /\ Call("read")
    /\ \E st \in FileStates :
         LET r == read_text_file(st) IN
         IF r.raised
           THEN /\ exc' = r.value
                /\ pc' = ExceptTarget
                /\ UNCHANGED <<text_content, events, failed_count, i>>
           ELSE /\ text_content' = r.value
                /\ IF blank(r.value)
                     THEN /\ Emit(FileProcessed(basename(files[i + 1]), FALSE,
                                                <<Str("file content is empty")>>))
                          /\ failed_count' = failed_after(failed_count)
                          /\ i' = i + 1
                          /\ pc' = "loop"
                     ELSE /\ Emit(LogMessage(<<Str("processing: "),
                                                Str(files[i + 1].stem),
                                                Str(files[i + 1].ext)>>))
                          /\ pc' = "generate"
                          /\ UNCHANGED <<failed_count, i>>
                /\ UNCHANGED exc
    /\ UNCHANGED <<uiVars, cfgVars, is_cancelled, cancel_at, total_files,
                   success_count, audio_data, output_path, flag_reads,
                   writes>>
    /\ UNCHANGED catVars
    /\ UNCHANGED fsVars

\* line 125
GenerateAudio ==
    /\ pc = "generate"
    /\ Call("generate")
    /\ \E r \in generate_audio_outcomes(text_content, voice_id, worker_client) :
         IF r.raised
           THEN /\ exc' = r.value
                /\ pc' = ExceptTarget
                /\ UNCHANGED audio_data
           ELSE /\ audio_data' = r.value
                /\ pc' = "outpath"
                /\ UNCHANGED exc
    /\ UNCHANGED <<uiVars, cfgVars, is_cancelled, cancel_at, total_files,
                   success_count, failed_count, i, text_content, output_path,
                   events, flag_reads, writes>>
    /\ UNCHANGED catVars
    /\ UNCHANGED fsVars

\* line 128
GetOutputPath ==
    /\ pc = "outpath"
    /\ LET r == get_output_path(files[i + 1], output_format) IN
       IF r.raised
         THEN /\ exc' = "ValueError: format"
              /\ pc' = ExceptTarget
              /\ UNCHANGED output_path
         ELSE /\ output_path' = r.value
              /\ pc' = "save"
              /\ UNCHANGED exc
    /\ UNCHANGED <<uiVars, cfgVars, is_cancelled, cancel_at, total_files,
                   success_count, failed_count, i, text_content, audio_data,
                   events, flag_reads, writes, calls>>
    /\ UNCHANGED catVars
    /\ UNCHANGED fsVars

\* line 129
SaveAudio ==
    /\ pc = "save"
    /\ Call("save")
    /\ \E o \in save_audio_outcomes(audio_data) :
         /\ writes' = CASE o = "ok" ->
                             Append(writes, [file |-> i + 1,
                                             path |-> output_path,
                                             data |-> audio_data])
                        [] o = "IOError" ->
                             Append(writes, [file |-> i + 1,
                                             path |-> output_path,
                                             data |-> ""])
                        [] OTHER -> writes
         /\ IF o = "ok"
              THEN /\ pc' = "emit_ok"
                   /\ UNCHANGED exc
              ELSE /\ exc' = o
                   /\ pc' = ExceptTarget
    /\ UNCHANGED <<uiVars, cfgVars, is_cancelled, cancel_at, total_files,
                   success_count, failed_count, i, text_content, audio_data,
                   output_path, events, flag_reads>>
    /\ UNCHANGED catVars
    /\ UNCHANGED fsVars

\* lines 131-136
EmitSuccess ==
    /\ pc = "emit_ok"
    /\ Emit(FileProcessed(basename(files[i + 1]), TRUE,
                          <<Str("saved to: "), Str(output_path.stem),
                            Str("."), Str(output_path.ext)>>))
    /\ success_count' = success_count + 1
    /\ i' = i + 1
    /\ pc' = "loop"
    /\ UNCHANGED <<uiVars, cfgVars, is_cancelled, cancel_at, total_files,
                   failed_count, text_content, audio_data, output_path, exc,
                   flag_reads, writes, calls>>
    /\ UNCHANGED catVars
    /\ UNCHANGED fsVars

\* where the per-file handler leaves the worker: the next iteration
HandlerTarget == "loop"

\* lines 138-145
PerFileHandler ==
    /\ pc = "handler"
    /\ Emit(FileProcessed(basename(files[i + 1]), FALSE,
                          <<Str("processing failed: "), Str(exc)>>))
    /\ failed_count' = failed_after(failed_count)
    /\ i' = i + 1
    /\ pc' = HandlerTarget
    /\ UNCHANGED <<uiVars, cfgVars, is_cancelled, cancel_at, total_files,
                   success_count, text_content, audio_data, output_path, exc,
                   flag_reads, writes, calls>>
    /\ UNCHANGED catVars
    /\ UNCHANGED fsVars

\* a last progress signal that restarts at zero
final_progress_zero(tot) == ProgressUpdated(0, tot)

\* the last progress signal: line 148
final_progress(tot) == ProgressUpdated(tot, tot)

FinalProgress ==
    /\ pc = "final"
    /\ Emit(final_progress(total_files))
    /\ pc' = "terminal"
    /\ UNCHANGED <<uiVars, cfgVars, is_cancelled, cancel_at, total_files,
                   success_count, failed_count, i, text_content, audio_data,
                   output_path, exc, flag_reads, writes, calls>>
    /\ UNCHANGED catVars
    /\ UNCHANGED fsVars

\* a terminal signal that ignores the cancel flag
TerminalEvent_nocancel(cancelled, s, f) ==
    IF f = 0
      THEN Finished(TRUE, <<Str("all"), Num(s), Str("files succeeded")>>)
    ELSE Finished(s > 0, <<Str("done: succeeded"), Num(s),
                           Str(", failed"), Num(f)>>)

\* a terminal signal that reports success only when no file failed
TerminalEvent_strict(cancelled, s, f) ==
    IF cancelled THEN Finished(FALSE, <<Str("processing cancelled")>>)
    ELSE IF f = 0
      THEN Finished(TRUE, <<Str("all"), Num(s), Str("files succeeded")>>)
    ELSE Finished(FALSE, <<Str("done: succeeded"), Num(s),
                           Str(", failed"), Num(f)>>)

\* the terminal signal: lines 151-159
TerminalEvent(cancelled, s, f) ==
    IF cancelled THEN Finished(FALSE, <<Str("processing cancelled")>>)
    ELSE IF f = 0
      THEN Finished(TRUE, <<Str("all"), Num(s), Str("files succeeded")>>)
    ELSE Finished(s > 0, <<Str("done: succeeded"), Num(s),
                           Str(", failed"), Num(f)>>)

EmitFinished ==
    /\ pc = "terminal"
    /\ flag_reads' = flag_reads \cup {"terminal"}
    /\ Emit(TerminalEvent(is_cancelled, success_count, failed_count))
    /\ pc' = "done"
    /\ UNCHANGED <<uiVars, cfgVars, is_cancelled, cancel_at, total_files,
                   success_count, failed_count, i, text_content, audio_data,
                   output_path, exc, writes, calls>>
    /\ UNCHANGED catVars
    /\ UNCHANGED fsVars

\* the phase of run() a position belongs to
Phase(p) ==
    CASE p = "loop"     -> "boundary"
      [] p \in InFlight -> "in_flight"
      [] p = "begin"    -> "before_loop"
      [] OTHER          -> "after_loop"

\* BatchProcessThread.cancel, lines 165-167
cancel ==
    /\ is_cancelled' = TRUE
    /\ cancel_at' = IF is_cancelled THEN cancel_at
                    ELSE [phase |-> Phase(pc), i |-> i]

(* ----------------------------- MainWindow ------------------------------ *)

NotCancelled == [phase |-> "never", i |-> 0]

\* a start that takes any current voice id
StartGuard_anyvoice(tf, vc) ==
    CASE tf = <<>>     -> "warning: select a folder"
      [] vc = "NoItem" -> "warning: select a voice"
      [] OTHER         -> "question: confirm start"

\* the dialog start_batch_processing opens, lines 612-638: one of the three
\* warnings it returns after, or the confirmation
StartGuard(tf, vc) ==
    CASE tf = <<>>     -> "warning: select a folder"
      [] vc = "NoItem" -> "warning: select a voice"
      [] vc = ""       -> "warning: select a valid voice"
      [] OTHER         -> "question: confirm start"

\* MainWindow.start_batch_processing, lines 610-660 (the user confirms)
StartBatchProcessing ==
    /\ start_btn
    /\ dialog' = StartGuard(text_files, voice_combo)
    /\ IF StartGuard(text_files, voice_combo) # "question: confirm start"
         THEN UNCHANGED <<start_btn, stop_btn, batch_thread, cfgVars,
                          runVars, obsVars, is_cancelled, cancel_at>>
         ELSE /\ batch_thread' = IF batch_thread = "None" THEN "Thread"
                                 ELSE "Second"
              \* BatchProcessThread.__init__, lines 82-91
              /\ files' = text_files
              /\ voice_id' = voice_combo
              /\ output_format' = format_combo
              /\ is_cancelled' = FALSE
              /\ \E cl \in {"None", "Session"} : worker_client' = cl
              /\ cancel_at' = NotCancelled
              /\ events' = <<>>
              /\ flag_reads' = {}
              /\ writes' = <<>>
              /\ calls' = {}
              /\ total_files' = 0
              /\ success_count' = 0
              /\ failed_count' = 0
              /\ i' = 0
              /\ text_content' = ""
              /\ audio_data' = ""
              /\ output_path' = NoPath
              /\ exc' = ""
              \* start()
              /\ pc' = "begin"
              /\ start_btn' = FALSE
              /\ stop_btn' = TRUE
    /\ UNCHANGED <<text_files, voice_combo, format_combo>>
    /\ UNCHANGED catVars
    /\ UNCHANGED fsVars

\* MainWindow.stop_batch_processing, lines 662-674 (the user confirms)
StopBatchProcessing ==
    /\ stop_btn
    /\ batch_thread # "None"
    /\ Running
    /\ dialog' = "question: confirm stop"
    /\ cancel
    /\ UNCHANGED <<text_files, voice_combo, format_combo, start_btn, stop_btn,
                   batch_thread, cfgVars, runVars, obsVars>>
    /\ UNCHANGED catVars
    /\ UNCHANGED fsVars

\* MainWindow.on_batch_finished, lines 687-703: the slot of the finished
\* signal, run by the window's thread after the worker has emitted it
OnBatchFinished ==
    /\ pc = "done"
    /\ batch_thread # "None"
    /\ start_btn' = TRUE
    /\ stop_btn' = FALSE
    /\ dialog' = IF events[Len(events)].ok THEN "information: finished"
                 ELSE "warning: finished"
    /\ batch_thread' = "None"
    /\ UNCHANGED <<text_files, voice_combo, format_combo, cfgVars, runVars,
                   obsVars, is_cancelled, cancel_at>>
    /\ UNCHANGED catVars
    /\ UNCHANGED fsVars

\* files in the folder when another handler of the window runs beside a
\* batch
FolderScans == {s \in ScanResults : Len(s) <= MaxFolder}

\* MainWindow.refresh_file_list, lines 494-522, with a folder selected: the
\* scan replaces text_files and line 515 sets the start button; a scan that
\* raises shows a warning and changes nothing else
RefreshFileList ==
    /\ \/ \E scanned \in FolderScans :
            /\ text_files' = scanned
            /\ start_btn' = (Len(scanned) > 0 /\ voice_combo # "NoItem")
            /\ UNCHANGED dialog
       \/ /\ dialog' = "warning: refresh failed"
          /\ UNCHANGED <<text_files, start_btn>>
    /\ UNCHANGED <<voice_combo, format_combo, stop_btn, batch_thread,
                   cfgVars, runVars, obsVars, is_cancelled, cancel_at>>
    /\ UNCHANGED catVars
    /\ UNCHANGED fsVars

\* MainWindow.filter_voices, lines 562-608, called by on_voices_loaded (line
\* 549) and by a change of the voice type, with a non-empty all_voices: the
\* combo is refilled and line 600 sets the start button
FilterVoices ==
    /\ \E current \in {"NoItem", "", "voice_1"} :
         /\ voice_combo' = current
         /\ start_btn' = (Len(text_files) > 0 /\ current # "NoItem")
    /\ UNCHANGED <<text_files, format_combo, stop_btn, batch_thread, dialog,
                   cfgVars, runVars, obsVars, is_cancelled, cancel_at>>
    /\ UNCHANGED catVars
    /\ UNCHANGED fsVars

(* -------------------- AudioGenerator: voice catalogue ------------------ *)

\* seconds between two readings of the clock
TickSeconds == CacheWindow \div 3

\* time.time() when the window is built: the epoch clock is far past one
\* cache window
StartTime == 10 * CacheWindow

Keys == {"k1", "k2"}

Loaders == 1..MaxLoaders

\* a record of the backend's model listing
Model(id, type, visibility, state, like_kind, like_count) ==
    [id |-> id, type |-> type, visibility |-> visibility, state |-> state,
     like_kind |-> like_kind, like_count |-> like_count]

\* a voice dict; like_kind tells whether the dict has the key like_count
\* ("absent"), holds a number ("int") or holds None ("none"); cred is the
\* credential the entry was fetched with
Voice(id, visibility, state, like_kind, like_count, cred) ==
    [id |-> id, visibility |-> visibility, state |-> state,
     like_kind |-> like_kind, like_count |-> like_count, cred |-> cred]

OwnTrained == Model("p1", "tts", "private", "trained", "absent", 0)

OwnCreated == Model("p2", "tts", "private", "created", "absent", 0)

PublicNoLikes == Model("u2", "tts", "public", "trained", "none", 0)

NotTts == Model("s1", "svc", "public", "trained", "int", 5)

PublicPopular == Model("u3", "tts", "public", "trained", "int", 7)

\* as many likes as PublicPopular
PublicTie == Model("u4", "tts", "public", "trained", "int", 7)

PublicCreated == Model("u5", "tts", "public", "created", "int", 9)

\* a model of the user's own that is published: the backend lists it among
\* the user's models and among the public ones
OwnPublic == Model("p3", "tts", "public", "trained", "int", 1)

\* a listing call that raised
Failed == [ok |-> FALSE, models |-> <<>>]

\* a listing call that answered
Listing(models) == [ok |-> TRUE, models |-> models]

\* what list_models(self_only=True) can answer
PersonalListings ==
    {Listing(<<>>), Listing(<<OwnTrained>>),
     Listing(<<OwnCreated, OwnPublic, OwnTrained>>)}

\* what list_models() can answer
FullListings ==
    {Listing(<<NotTts, OwnTrained>>), Listing(<<PublicNoLikes>>),
     Listing(<<PublicCreated, OwnPublic, PublicPopular, PublicTie>>)}

\* the example voices of the mock mode, lines 77-83
ExampleIds == <<"voice_1", "voice_2", "voice_3", "voice_4", "voice_5">>

ExampleVoices ==
    [k \in 1..Len(ExampleIds) |->
        Voice(ExampleIds[k], "", "", "absent", 0, "")]

\* Python's order of two key tuples (False < True is 0 < 1)
KeyLess(a, b) ==
    \/ a[1] < b[1]
    \/ a[1] = b[1] /\ a[2] < b[2]
    \/ a[1] = b[1] /\ a[2] = b[2] /\ a[3] < b[3]

\* list.sort(key=...): stable, ascending in the keys; keys[j] is the key of
\* seq[j]
StableSort(seq, keys) ==
    LET pos(j) == 1 + Cardinality({k \in 1..Len(seq) :
                        /\ k # j
                        /\ \/ KeyLess(keys[k], keys[j])
                           \/ ~KeyLess(keys[j], keys[k]) /\ k < j})
    IN [q \in 1..Len(seq) |-> seq[CHOOSE j \in 1..Len(seq) : pos(j) = q]]

\* bool as the int Python compares it as
Int01(b) == IF b THEN 1 ELSE 0

\* x.get('like_count', 0)
LikeOf(v) == IF v.like_kind = "absent" THEN 0 ELSE v.like_count

\* the first limit elements of a list
Take(seq, limit) == IF Len(seq) > limit THEN SubSeq(seq, 1, limit) ELSE seq

\* the key of line 381: state != 'trained'
UserKey(v) == <<Int01(v.state # "trained"), 0, 0>>

\* the key of line 460 under reverse=True: descending like_count, equal
\* elements keeping their order
LikeKey(v) == <<0 - LikeOf(v), 0, 0>>

\* a key that ranks the private voices last
RankKey_private_last(v) ==
    <<Int01(v.visibility = "private"), Int01(v.state # "trained"),
      0 - LikeOf(v)>>

\* the key of lines 103-107
RankKey(v) ==
    <<Int01(v.visibility # "private"), Int01(v.state # "trained"),
      0 - LikeOf(v)>>

\* seq sorted by one of the keys above
SortedBy(seq, which) ==
    StableSort(seq, [j \in 1..Len(seq) |->
                       CASE which = "user" -> UserKey(seq[j])
                         [] which = "like" -> LikeKey(seq[j])
                         [] OTHER          -> RankKey(seq[j])])

\* the voices get_user_models builds from a successful personal listing,
\* lines 279-307
PersonalVoices(models, cred) ==
    LET tts == SelectSeq(models, LAMBDA m : m.type = "tts")
    IN [k \in 1..Len(tts) |->
          Voice(tts[k].id, "private", tts[k].state, "absent", 0, cred)]

\* the voices get_user_models filters out of the full listing, lines 334-376
PrivateVoices(models, cred) ==
    LET sel == SelectSeq(models,
                   LAMBDA m : m.type = "tts" /\ m.visibility = "private")
    IN [k \in 1..Len(sel) |->
          Voice(sel[k].id, sel[k].visibility, sel[k].state, "absent", 0, cred)]

\* AudioGenerator.get_user_models, lines 245-388: personal is the answer of
\* list_models(self_only=True), full the answer of the fallback list_models()
get_user_models(cl, personal, full) ==
    IF cl = "None" THEN <<>>
    ELSE IF personal.ok
      THEN SortedBy(PersonalVoices(personal.models, cl), "user")
    ELSE IF full.ok
      THEN SortedBy(PrivateVoices(full.models, cl), "user")
    ELSE <<>>

\* the voices get_public_models builds, lines 413-457
PublicVoices(models, cred) ==
    LET sel == SelectSeq(models,
                   LAMBDA m : m.type = "tts" /\ m.visibility = "public")
    IN [k \in 1..Len(sel) |->
          Voice(sel[k].id, sel[k].visibility, sel[k].state,
                sel[k].like_kind, sel[k].like_count, cred)]

\* comparing the like counts of line 460 raises TypeError: a None among at
\* least two keys
LikeCompareRaises(voices) ==
    /\ Len(voices) >= 2
    /\ \E k \in 1..Len(voices) : voices[k].like_kind = "none"

\* AudioGenerator.get_public_models, lines 390-468: a client of None, a
\* failed listing or a failed sort all end in the handler returning []
get_public_models(cl, full, limit) ==
    IF cl = "None" \/ ~full.ok THEN <<>>
    ELSE IF LikeCompareRaises(PublicVoices(full.models, cl)) THEN <<>>
    ELSE Take(SortedBy(PublicVoices(full.models, cl), "like"), limit)

\* the key of lines 103-107 raises TypeError: -None
RankKeyRaises(voices) ==
    \E k \in 1..Len(voices) : voices[k].like_kind = "none"

\* AudioGenerator.init_client, lines 43-60: the client a key can lead to
init_client_outcomes(avail, key) ==
    IF ~avail THEN {"None"}
    ELSE IF key = "" THEN {"None"}
    ELSE {key, "None"}

NoCache == [none |-> TRUE, voices |-> <<>>]

Cached(voices) == [none |-> FALSE, voices |-> voices]

IdleLoader == [lpc |-> "none", current_time |-> 0, all_voices |-> <<>>,
               backend_failed |-> FALSE]

NoSignal == [sig |-> "none", voices |-> <<>>]

VoicesLoaded(voices) == [sig |-> "voices_loaded", voices |-> voices]

LoadError == [sig |-> "load_error", voices |-> <<>>]

\* what the backend answers to the listing requests of one refresh:
\* <<list_models(self_only=True), the fallback list_models() of
\* get_user_models, the list_models() of get_public_models>>; the fallback
\* is only asked for after a failed personal listing
BackendAnswers ==
    {a \in (PersonalListings \cup {Failed})
          \X (FullListings \cup {Failed})
          \X (FullListings \cup {Failed}) :
        a[1].ok => a[2] = Failed}

\* every listing request of a refresh raised
Unreachable(answers) == ~answers[1].ok /\ ~answers[2].ok /\ ~answers[3].ok

\* lines 92-100 for every client and every answer of the backend: the two
\* helper calls and the merge, personal voices first
Merged ==
    [cl \in Keys \cup {"None"} |->
        [answers \in BackendAnswers |->
            get_user_models(cl, answers[1], answers[2])
            \o get_public_models(cl, answers[3], PublicLimit)]]

\* a thread whose run() has returned
DoneLoader == [IdleLoader EXCEPT !.lpc = "done"]

\* MainWindow.refresh_voices, lines 524-538: a new VoiceLoadThread is started
\* (it takes the first thread slot that is not running)
StartLoader(l) ==
    /\ loader[l].lpc \in {"none", "done"}
    /\ \A m \in 1..(l - 1) : loader[m].lpc \notin {"none", "done"}
    /\ loader' = [loader EXCEPT ![l] = [IdleLoader EXCEPT !.lpc = "begin"]]
    /\ loaded' = [loaded EXCEPT ![l] = NoSignal]

RefreshVoices(l) ==
    /\ StartLoader(l)
    /\ UNCHANGED <<fish_available, api_key, client, voices_cache,
                   cache_timestamp, now, last_call>>
    /\ UNCHANGED batchVars
    /\ UNCHANGED fsVars

\* a cache that is never served
CacheFresh_never(cache, stamp, time) == FALSE

\* a cache still served at the age of the whole window
CacheFresh_inclusive(cache, stamp, time) ==
    ~cache.none /\ time - stamp <= CacheWindow

\* the cache is served: lines 71-72
CacheFresh(cache, stamp, time) ==
    ~cache.none /\ time - stamp < CacheWindow

\* get_available_voices, lines 70-88, then VoiceLoadThread.run, line 68, when
\* the call returns at once
LoaderBegin(l) ==
    /\ loader[l].lpc = "begin"
    /\ IF CacheFresh(voices_cache, cache_timestamp, now)
         THEN /\ loaded' = [loaded EXCEPT ![l] =
                               VoicesLoaded(voices_cache.voices)]
              /\ loader' = [loader EXCEPT ![l] = DoneLoader]
         ELSE IF ~fish_available \/ api_key = "" \/ client = "None"
         THEN /\ loaded' = [loaded EXCEPT ![l] = VoicesLoaded(ExampleVoices)]
              /\ loader' = [loader EXCEPT ![l] = DoneLoader]
         ELSE /\ loader' = [loader EXCEPT ![l].lpc = "fetch",
                                          ![l].current_time = now]
              /\ UNCHANGED loaded
    /\ UNCHANGED <<fish_available, api_key, client, voices_cache,
                   cache_timestamp, now, last_call>>
    /\ UNCHANGED batchVars
    /\ UNCHANGED fsVars

\* get_available_voices, lines 92-100: the two helper calls and the merge
LoaderFetch(l) ==
    /\ loader[l].lpc = "fetch"
    /\ \E answers \in BackendAnswers :
         loader' = [loader EXCEPT
             ![l].lpc = "store",
             ![l].all_voices = Merged[client][answers],
             ![l].backend_failed = (client # "None" /\ Unreachable(answers))]
    /\ UNCHANGED <<fish_available, api_key, client, voices_cache,
                   cache_timestamp, now, loaded, last_call>>
    /\ UNCHANGED batchVars
    /\ UNCHANGED fsVars

\* get_available_voices, lines 103-122, then VoiceLoadThread.run, lines 68-70
LoaderStore(l) ==
    /\ loader[l].lpc = "store"
    /\ IF RankKeyRaises(loader[l].all_voices)
         THEN /\ loaded' = [loaded EXCEPT ![l] =
                    IF voices_cache.voices # <<>>
                      THEN VoicesLoaded(voices_cache.voices)
                      ELSE LoadError]
              /\ UNCHANGED <<voices_cache, cache_timestamp>>
         ELSE LET sorted == SortedBy(loader[l].all_voices, "rank") IN
              /\ voices_cache' = Cached(sorted)
              /\ cache_timestamp' = loader[l].current_time
              /\ loaded' = [loaded EXCEPT ![l] = VoicesLoaded(sorted)]
    /\ loader' = [loader EXCEPT ![l] = DoneLoader]
    /\ UNCHANGED <<fish_available, api_key, client, now, last_call>>
    /\ UNCHANGED batchVars
    /\ UNCHANGED fsVars

\* a clear_cache that drops nothing
clear_cache_keep == UNCHANGED <<voices_cache, cache_timestamp>>

\* AudioGenerator.clear_cache, lines 499-502
clear_cache ==
    /\ voices_cache' = NoCache
    /\ cache_timestamp' = 0

\* MainWindow.save_api_key, lines 884-902: AudioGenerator.set_api_key, lines
\* 504-514, then refresh_voices
SaveApiKey(key, l) ==
    /\ api_key' = key
    /\ clear_cache
    /\ \E cl \in init_client_outcomes(fish_available, key) : client' = cl
    /\ StartLoader(l)
    /\ UNCHANGED <<fish_available, now, last_call>>
    /\ UNCHANGED batchVars
    /\ UNCHANGED fsVars

\* time passes
Tick ==
    /\ now + TickSeconds <= StartTime + MaxTicks * TickSeconds
    /\ now' = now + TickSeconds
    /\ UNCHANGED <<fish_available, api_key, client, voices_cache,
                   cache_timestamp, loader, loaded, last_call>>
    /\ UNCHANGED batchVars
    /\ UNCHANGED fsVars

(* --------------- AudioGenerator called by a single caller -------------- *)

\* the generator is in its real mode: none of the three tests of lines 75,
\* 142 and 252 holds
Configured(avail, key, cl) == avail /\ key # "" /\ cl # "None"

\* a generate_audio whose mock test looks at the key only
EffectiveClient_keyonly(avail, key, cl) ==
    IF avail /\ key # "" THEN key ELSE "None"

\* the client as generate_audio sees it
EffectiveClient(avail, key, cl) ==
    IF Configured(avail, key, cl) THEN cl ELSE "None"

\* list_models requests of one refresh
ListingRequests(personal) == IF personal.ok THEN 2 ELSE 3

\* lines 92-107 for a client and the backend's answers: the two helper
\* calls, the merge and the sort, which raises on a like count of None
Refresh(cl, answers) ==
    LET all_voices == Merged[cl][answers]
    IN [raised |-> RankKeyRaises(all_voices),
        merged |-> all_voices,
        voices |-> IF RankKeyRaises(all_voices) THEN <<>>
                   ELSE SortedBy(all_voices, "rank"),
        requests |-> ListingRequests(answers[1]),
        unreachable |-> Unreachable(answers)]

\* no refresh: the call returned at line 73 or 88
NoRefresh ==
    [raised |-> FALSE, merged |-> <<>>, voices |-> <<>>, requests |-> 0,
     unreachable |-> FALSE]

\* what the refresh of a client can come to
Refreshes == [cl \in Keys |-> {Refresh(cl, a) : a \in BackendAnswers}]

\* the refreshes a call of get_available_voices can meet: it asks the
\* backend only past the returns of lines 73 and 88
RefreshesOf(cache, stamp, time, avail, key, cl) ==
    IF CacheFresh(cache, stamp, time) \/ ~Configured(avail, key, cl)
      THEN {NoRefresh}
      ELSE Refreshes[cl]

\* AudioGenerator.get_available_voices, lines 62-122, as one call: what it
\* returns or raises, the return statement it left through (site), the
\* listing requests it made, and the cache it leaves
get_available_voices(cache, stamp, time, avail, key, cl, refreshed) ==
    IF CacheFresh(cache, stamp, time)
      THEN [raised |-> FALSE, voices |-> cache.voices, site |-> "cache",
            requests |-> 0, cache |-> cache, stamp |-> stamp]
    ELSE IF ~Configured(avail, key, cl)
      THEN [raised |-> FALSE, voices |-> ExampleVoices, site |-> "mock",
            requests |-> 0, cache |-> cache, stamp |-> stamp]
    ELSE LET requests == refreshed.requests
         IN IF refreshed.raised
              THEN IF cache.voices # <<>>
                     THEN [raised |-> FALSE, voices |-> cache.voices,
                           site |-> "fallback", requests |-> requests,
                           cache |-> cache, stamp |-> stamp]
                     ELSE [raised |-> TRUE, voices |-> <<>>,
                           site |-> "raise", requests |-> requests,
                           cache |-> cache, stamp |-> stamp]
              ELSE [raised |-> FALSE, voices |-> refreshed.voices,
                    site |-> "backend", requests |-> requests,
                    cache |-> Cached(refreshed.voices), stamp |-> time]

\* current_time - self._cache_timestamp of line 72 (-1: not evaluated)
CacheAge(cache, stamp, time) == IF cache.none THEN 0 - 1 ELSE time - stamp

\* no call has been made yet
NoCall ==
    [op |-> "none", text |-> "", voice |-> "", raised |-> FALSE,
     value |-> "", voices |-> <<>>, merged |-> <<>>, valid |-> FALSE,
     site |-> "",
     requests |-> 0, age |-> 0 - 1, unreachable |-> FALSE, did |-> {},
     texts |-> <<>>, results |-> <<>>, log |-> <<>>,
     after |-> "call"]

\* what the call before a call was: an invalidation that dropped a list
\* less than 300 seconds old, another invalidation, or anything else
Preceding(prev) ==
    CASE prev.op \notin {"clear_cache", "set_api_key"} -> "call"
      [] prev.age >= 0 /\ prev.age < CacheWindow -> "fresh list dropped"
      [] OTHER -> "invalidation"

\* the record of a call, with what preceded it
Called(rec) == [rec EXCEPT !.after = Preceding(last_call)]

\* a call of get_available_voices()
GetAvailableVoices ==
    /\ \E refreshed \in RefreshesOf(voices_cache, cache_timestamp, now,
                                     fish_available, api_key, client) :
         LET r == get_available_voices(voices_cache, cache_timestamp, now,
                                       fish_available, api_key, client,
                                       refreshed)
         IN /\ voices_cache' = r.cache
            /\ cache_timestamp' = r.stamp
            /\ last_call' = Called(
                  [NoCall EXCEPT
                     !.op = "get_available_voices",
                     !.raised = r.raised,
                     !.voices = r.voices,
                     !.merged = refreshed.merged,
                     !.site = r.site,
                     !.requests = r.requests,
                     !.age = CacheAge(voices_cache, cache_timestamp, now),
                     !.unreachable = refreshed.unreachable])
    /\ UNCHANGED <<fish_available, api_key, client, now, loader, loaded>>
    /\ UNCHANGED batchVars
    /\ UNCHANGED fsVars

\* the ids a caller asks about
AskedIds == {"p1", "voice_1", "invalid_voice_id"}

\* any(voice["id"] == voice_id for voice in voices), line 220
HasId(voices, id) == \E k \in 1..Len(voices) : voices[k].id = id

\* AudioGenerator.validate_voice_id, lines 208-223: True when the lookup
\* raised
validate_voice_id(r, id) == IF r.raised THEN TRUE ELSE HasId(r.voices, id)

\* a call of validate_voice_id(id)
ValidateVoiceId(id) ==
    /\ \E refreshed \in RefreshesOf(voices_cache, cache_timestamp, now,
                                     fish_available, api_key, client) :
         LET r == get_available_voices(voices_cache, cache_timestamp, now,
                                       fish_available, api_key, client,
                                       refreshed)
         IN /\ voices_cache' = r.cache
            /\ cache_timestamp' = r.stamp
            /\ last_call' = Called(
                  [NoCall EXCEPT
                     !.op = "validate_voice_id",
                     !.voice = id,
                     !.valid = validate_voice_id(r, id),
                     !.voices = r.voices,
                     !.merged = refreshed.merged,
                     !.site = r.site,
                     !.requests = r.requests,
                     !.age = CacheAge(voices_cache, cache_timestamp, now),
                     !.unreachable = refreshed.unreachable])
    /\ UNCHANGED <<fish_available, api_key, client, now, loader, loaded>>
    /\ UNCHANGED batchVars
    /\ UNCHANGED fsVars

\* a call of clear_cache()
ClearCache ==
    /\ clear_cache
    /\ last_call' = Called([NoCall EXCEPT
                               !.op = "clear_cache",
                               !.age = CacheAge(voices_cache, cache_timestamp,
                                                now)])
    /\ UNCHANGED <<fish_available, api_key, client, now, loader, loaded>>
    /\ UNCHANGED batchVars
    /\ UNCHANGED fsVars

\* AudioGenerator.set_api_key, lines 504-514
SetApiKey(key) ==
    /\ api_key' = key
    /\ clear_cache
    /\ \E cl \in init_client_outcomes(fish_available, key) : client' = cl
    /\ last_call' = Called([NoCall EXCEPT
                               !.op = "set_api_key",
                               !.value = key,
                               !.age = CacheAge(voices_cache, cache_timestamp,
                                                now)])
    /\ UNCHANGED <<fish_available, now, loader, loaded>>
    /\ UNCHANGED batchVars
    /\ UNCHANGED fsVars

\* AudioGenerator._generate_dummy_audio, lines 470-497: the bytes of the
\* placeholder payload, a WAV header followed by zero bytes
dummy_audio_header == 4 + 4 + 4 + 4 + 4 + 2 + 2 + 4 + 4 + 2 + 2 + 4 + 4

dummy_audio_zeros == 2048

\* the texts and voice ids a caller passes to generate_audio
Texts == {"", "   ", "text"}

VoiceArgs == {"", "None", "voice_1"}

\* a call of generate_audio(text, voice)
GenerateAudioCall(text, voice) ==
    /\ \E r \in generate_audio_outcomes(text, voice,
                    EffectiveClient(fish_available, api_key, client)) :
         last_call' = Called([NoCall EXCEPT
                                !.op = "generate_audio",
                                !.text = text,
                                !.voice = voice,
                                !.raised = r.raised,
                                !.value = r.value,
                                !.did = r.did])
    /\ UNCHANGED <<fish_available, api_key, client, voices_cache,
                   cache_timestamp, now, loader, loaded>>
    /\ UNCHANGED batchVars
    /\ UNCHANGED fsVars

\* the text lists and the voice ids a caller passes to batch_generate
TextLists ==
    UNION {[1..n -> {"", "text"}] : n \in 0..MaxTexts}

BatchVoiceArgs == {"None", "voice_1"}

\* what batch_generate appends for one generate_audio outcome, lines
\* 198-203: the audio, or None when the call raised
batch_item(r) == IF r.raised THEN "None" ELSE r.value

\* a batch_generate that gives up at the first failure
batch_next_abort(k, raised, n) == IF raised THEN n + 1 ELSE k + 1

\* the index the for loop of line 197 goes to after index k, whether the
\* call of line 200 raised or not
batch_next(k, raised, n) == k + 1

\* the loop of lines 197-203 from index k on, with the results appended so
\* far and the generate_audio calls made so far
RECURSIVE batch_loop(_, _, _, _, _, _)
batch_loop(texts, voice, cl, k, results, log) ==
    IF k > Len(texts)
      THEN {[results |-> results, log |-> log]}
      ELSE UNION {batch_loop(texts, voice, cl,
                             batch_next(k, r.raised, Len(texts)),
                             Append(results, batch_item(r)),
                             Append(log, [index |-> k, text |-> texts[k],
                                          raised |-> r.raised,
                                          value |-> r.value]))
                    : r \in generate_audio_outcomes(texts[k], voice, cl)}

\* AudioGenerator.batch_generate, lines 176-206
batch_generate_outcomes(texts, voice, cl) ==
    IF texts = <<>>
      THEN {[results |-> <<>>, log |-> <<>>]}
      ELSE batch_loop(texts, voice, cl, 1, <<>>, <<>>)

\* a call of batch_generate(texts, voice)
BatchGenerate(texts, voice) ==
    /\ \E b \in batch_generate_outcomes(texts, voice,
                    EffectiveClient(fish_available, api_key, client)) :
         last_call' = Called([NoCall EXCEPT
                                !.op = "batch_generate",
                                !.texts = texts,
                                !.voice = voice,
                                !.results = b.results,
                                !.log = b.log])
    /\ UNCHANGED <<fish_available, api_key, client, voices_cache,
                   cache_timestamp, now, loader, loaded>>
    /\ UNCHANGED batchVars
    /\ UNCHANGED fsVars

(* --------------- FileProcessor called by a single caller --------------- *)

\* the audio data and the formats a caller passes
Blobs == {"", "None", "audio", "dummy_wav"}

SaveFormats == {"wav", "ogg"}

\* no call has been made yet
NoSave ==
    [op |-> "none", data |-> "", input |-> NoPath, format |-> "",
     path |-> NoPath, raised |-> "", before |-> EmptyDisk(FALSE)]

\* save_audio(data, get_output_path(p, format)): get_output_path raises for
\* an unsupported format and save_audio is not called
SaveAudioCall(data, p, format) ==
    LET out == get_output_path(p, format)
    IN /\ IF out.raised
            THEN /\ disk' = disk
                 /\ last_save' = [NoSave EXCEPT
                                    !.op = "get_output_path",
                                    !.data = data, !.input = p,
                                    !.format = format,
                                    !.raised = "ValueError",
                                    !.before = disk]
            ELSE \E o \in save_audio_outcomes(data) :
                   /\ disk' \in save_audio_disk(o, data, out.value, disk)
                   /\ last_save' = [NoSave EXCEPT
                                      !.op = "save_audio",
                                      !.data = data, !.input = p,
                                      !.format = format,
                                      !.path = out.value,
                                      !.raised = IF o = "ok" THEN "" ELSE o,
                                      !.before = disk]
       /\ UNCHANGED batchVars
       /\ UNCHANGED catVars

(* --------------------------- specification ----------------------------- *)

\* the window with no worker, after a folder scan and a voice load. The
\* start button is as the last refresh_file_list or filter_voices left it
\* (lines 515 and 600), or enabled by on_batch_finished (line 691) after a
\* batch during which the file list or the voice list was replaced
InitBatch ==
    /\ text_files \in ScanResults
    /\ voice_combo \in {"NoItem", "", "voice_1"}
    /\ format_combo \in audio_formats
    /\ start_btn \in {Len(text_files) > 0 /\ voice_combo # "NoItem", TRUE}
    /\ stop_btn = FALSE
    /\ batch_thread = "None"
    /\ dialog = "none"
    /\ pc = "none"
    /\ files = <<>>
    /\ voice_id = ""
    /\ output_format = "wav"
    /\ worker_client = "None"
    /\ is_cancelled = FALSE
    /\ cancel_at = NotCancelled
    /\ total_files = 0
    /\ success_count = 0
    /\ failed_count = 0
    /\ i = 0
    /\ text_content = ""
    /\ audio_data = ""
    /\ output_path = NoPath
    /\ exc = ""
    /\ events = <<>>
    /\ flag_reads = {}
    /\ writes = <<>>
    /\ calls = {}

\* AudioGenerator.__init__, lines 26-41, with the key the configuration holds
InitCatalog ==
    /\ fish_available \in BOOLEAN
    /\ api_key \in {"", "k1"}
    /\ client \in init_client_outcomes(fish_available, api_key)
    /\ voices_cache = NoCache
    /\ cache_timestamp = 0
    /\ now = StartTime
    /\ loader = [l \in Loaders |-> IdleLoader]
    /\ loaded = [l \in Loaders |-> NoSignal]
    /\ last_call = NoCall

\* a generator without key, no voice load running
IdleCatalog ==
    /\ fish_available = TRUE
    /\ api_key = ""
    /\ client = "None"
    /\ voices_cache = NoCache
    /\ cache_timestamp = 0
    /\ now = StartTime
    /\ loader = [l \in Loaders |-> IdleLoader]
    /\ loaded = [l \in Loaders |-> NoSignal]
    /\ last_call = NoCall

\* a window without folder and without worker
IdleBatch ==
    /\ InitBatch
    /\ ~start_btn
    /\ text_files = <<>>
    /\ voice_combo = "NoItem"
    /\ format_combo = "wav"

\* the scanned folder exists; no caller has saved anything
IdleFiles ==
    /\ disk = EmptyDisk(TRUE)
    /\ last_save = NoSave

Init == InitBatch /\ IdleCatalog /\ IdleFiles

Next ==
    \/ StartBatchProcessing
    \/ StopBatchProcessing
    \/ OnBatchFinished
    \/ RunBegin
    \/ LoopHead
    \/ EmitProgress
    \/ ReadFile
    \/ GenerateAudio
    \/ GetOutputPath
    \/ SaveAudio
    \/ EmitSuccess
    \/ PerFileHandler
    \/ FinalProgress
    \/ EmitFinished

Spec == Init /\ [][Next]_vars

\* the window with a small folder
InitWindow ==
    /\ Init
    /\ text_files \in FolderScans

NextWindow ==
    \/ Next
    \/ RefreshFileList
    \/ FilterVoices

\* the window, its batch worker, and the handlers that set the start button
SpecWindow == InitWindow /\ [][NextWindow]_vars

InitVoices == IdleBatch /\ InitCatalog /\ IdleFiles

NextVoices ==
    \/ \E l \in Loaders : RefreshVoices(l)
    \/ \E l \in Loaders : LoaderBegin(l)
    \/ \E l \in Loaders : LoaderFetch(l)
    \/ \E l \in Loaders : LoaderStore(l)
    \/ \E key \in Keys, l \in Loaders : SaveApiKey(key, l)
    \/ Tick

\* the voice catalogue: the generator of the window and its load threads
SpecVoices == InitVoices /\ [][NextVoices]_vars

NextGenerator ==
    \/ GetAvailableVoices
    \/ \E id \in AskedIds : ValidateVoiceId(id)
    \/ ClearCache
    \/ \E key \in Keys \cup {""} : SetApiKey(key)
    \/ \E text \in Texts, voice \in VoiceArgs : GenerateAudioCall(text, voice)
    \/ \E texts \in TextLists, voice \in BatchVoiceArgs :
          BatchGenerate(texts, voice)
    \/ Tick

\* an AudioGenerator object and one caller of its methods
SpecGenerator == InitVoices /\ [][NextGenerator]_vars

\* a folder that exists or not, before any output was written
InitFiles ==
    /\ IdleBatch
    /\ IdleCatalog
    /\ disk \in {EmptyDisk(FALSE), EmptyDisk(TRUE)}
    /\ last_save = NoSave

NextFiles ==
    \E data \in Blobs, p \in InputPaths, format \in SaveFormats :
       SaveAudioCall(data, p, format)

\* a FileProcessor object and one caller of its methods
SpecFiles == InitFiles /\ [][NextFiles]_vars

(* ------------------------ reading the signals -------------------------- *)

IsFileEvent(e) == e.sig = "file_processed"

IsProgressEvent(e) == e.sig = "progress_updated"

IsFinishedEvent(e) == e.sig = "finished"

FileEvents == SelectSeq(events, IsFileEvent)

ProgressEvents == SelectSeq(events, IsProgressEvent)

FinishedEvents == SelectSeq(events, IsFinishedEvent)

LastEvent == events[Len(events)]

CancelledEvent == Finished(FALSE, <<Str("processing cancelled")>>)

\* the loop was left through the break of line 105
StoppedByCancel ==
    \E k \in 1..Len(events) :
        events[k] = LogMessage(<<Str("cancelled by user")>>)

\* the files whose loop body was entered (1-based): each one is read first
Entered == {c[2] : c \in {d \in calls : d[1] = "read"}}

\* a formatted message is not the empty string
NonEmptyText(msg) ==
    \E k \in 1..Len(msg) : msg[k].t = "num" \/ msg[k].s # ""

\* a formatted message contains the number n
StatesNumber(msg, n) ==
    \E k \in 1..Len(msg) : msg[k].t = "num" /\ msg[k].n = n

(* ------------------------------- claims -------------------------------- *)

\* C1: failure isolation. A step of the per-file try (read, generate,
\* output path, save) never leaves the loop: when it raises, the worker is in
\* the per-file handler; the handler emits exactly one
\* file_processed(name_i, False, reason) carrying str(e) and moves to the loop
\* head of file i+1; the loop head, unless cancelled, begins file i+1.
C1_FailureIsolation ==
    /\ [][(pc \in {"read", "generate", "outpath", "save"})
            => (pc' \in InFlight \cup {"loop"})]_vars
    /\ [][pc = "handler" /\ pc' # "handler"
            => /\ events' = Append(events,
                     FileProcessed(basename(files[i + 1]), FALSE,
                                   <<Str("processing failed: "), Str(exc)>>))
               /\ i' = i + 1
               /\ pc' = "loop"]_vars
    /\ [][pc = "loop" /\ pc' # "loop" /\ i < total_files /\ ~is_cancelled
            => pc' = "progress" /\ i' = i]_vars
    /\ [](pc \in InFlight \cup {"loop"} => Len(FileEvents) = i)

\* C1 witness: a file has failed through the handler and the next file is
\* being read
C1_Witness ==
    /\ pc = "read"
    /\ i >= 1
    /\ ~FileEvents[i].ok
    /\ FileEvents[i].msg[1] = Str("processing failed: ")

\* C2: cancel() called at a file boundary, after file k and before the loop
\* head of file k+1 < total: the index stays k+1, no call, write or per-file
\* event exists for a later file, exactly k+1 files have their event, and
\* the run ends with finished(False, cancelled).
C2_CancelAtBoundary ==
    (is_cancelled /\ cancel_at.phase = "boundary" /\ cancel_at.i < total_files)
    => /\ i = cancel_at.i
       /\ pc \in {"loop", "final", "terminal", "done"}
       /\ \A c \in calls : c[2] <= cancel_at.i
       /\ \A k \in 1..Len(writes) : writes[k].file <= cancel_at.i
       /\ Len(FileEvents) = cancel_at.i
       /\ Entered = 1..cancel_at.i
       /\ (pc = "done" => LastEvent = CancelledEvent)

\* C2 witness: a run cancelled at the boundary after at least one file, with
\* files left, has ended
C2_Witness ==
    /\ pc = "done"
    /\ is_cancelled
    /\ cancel_at.phase = "boundary"
    /\ cancel_at.i >= 1
    /\ cancel_at.i < total_files

\* C3 (as claimed): whenever every input file was attempted and succeeded,
\* the terminal event is finished(True, ...) and failed_count = 0, whatever
\* the interleaving with cancel().
C3_AllSucceededFinishedTrue ==
    (/\ pc = "done"
     /\ Len(FileEvents) = total_files
     /\ \A k \in 1..Len(FileEvents) : FileEvents[k].ok)
    => /\ LastEvent.sig = "finished"
       /\ LastEvent.ok
       /\ failed_count = 0

\* C4: outcome accounting at the terminal event: success_count + failed_count
\* is the number of files whose loop body was entered, each of them has
\* exactly one file_processed event (successes and failures counted apart),
\* and the sum is the number of input files unless the loop was left by the
\* cancel break.
C4_OutcomeAccounting ==
    pc = "done"
    => /\ success_count + failed_count = Cardinality(Entered)
       /\ Len(FileEvents) = Cardinality(Entered)
       /\ \A j \in Entered :
            Cardinality({k \in 1..Len(FileEvents) :
                            FileEvents[k].name = basename(files[j])}) = 1
       /\ success_count =
            Cardinality({k \in 1..Len(FileEvents) : FileEvents[k].ok})
       /\ failed_count =
            Cardinality({k \in 1..Len(FileEvents) : ~FileEvents[k].ok})
       /\ (~StoppedByCancel => success_count + failed_count = total_files)

\* C4 witness: a finished run with both a success and a failure
C4_Witness ==
    /\ pc = "done"
    /\ success_count >= 1
    /\ failed_count >= 1

\* C5: when cancel() has not been called, a finished run has emitted the
\* progress signals (0,total), (1,total), ..., (total,total) and no other;
\* every call made for file i comes after progress (i,total); and
\* (total,total) is emitted only after all files have their event.
C5_ProgressSequence ==
    /\ (pc = "done" /\ ~is_cancelled)
         => ProgressEvents =
              [k \in 1..(total_files + 1) |->
                  ProgressUpdated(k - 1, total_files)]
    /\ ~is_cancelled
         => /\ \A c \in calls :
                 \E k \in 1..Len(events) :
                     events[k] = ProgressUpdated(c[2] - 1, total_files)
            /\ \A k \in 1..Len(events) :
                 events[k] = ProgressUpdated(total_files, total_files)
                 => /\ Len(FileEvents) = total_files
                    /\ \A m \in (k + 1)..Len(events) : ~IsFileEvent(events[m])

\* C5 witness: an uncancelled run over at least two files has ended
C5_Witness ==
    /\ pc = "done"
    /\ ~is_cancelled
    /\ total_files >= 2

\* C6: event ordering: the k-th per-file event belongs to the k-th input
\* file (input order, at most one per file), progress values never decrease,
\* at most one finished event exists and nothing follows it, and a run that
\* has ended has emitted exactly one.
C6_EventOrdering ==
    /\ Len(FileEvents) <= Len(files)
    /\ \A k \in 1..Len(FileEvents) : FileEvents[k].name = basename(files[k])
    /\ \A a, b \in 1..Len(ProgressEvents) :
         a < b => ProgressEvents[a].cur <= ProgressEvents[b].cur
    /\ Len(FinishedEvents) <= 1
    /\ \A k \in 1..Len(events) : IsFinishedEvent(events[k]) => k = Len(events)
    /\ (pc = "done" <=> Len(FinishedEvents) = 1)

\* C6 witness: a run with per-file events of at least two files has ended
C6_Witness ==
    /\ pc = "done"
    /\ Len(FileEvents) >= 2
    /\ Len(ProgressEvents) >= 3

\* C7: cancel() called while file i is in flight: file i is not cut short
\* (when the worker has left it, it has its own event), no later file is
\* touched, the run ends cancelled; the flag is read only at the loop head
\* and at the terminal check.
C7_CooperativeCancel ==
    /\ (is_cancelled /\ cancel_at.phase = "in_flight")
         => /\ \A c \in calls : c[2] <= cancel_at.i + 1
            /\ \A k \in 1..Len(writes) : writes[k].file <= cancel_at.i + 1
            /\ (pc \in InFlight => i = cancel_at.i)
            /\ (pc \notin InFlight
                  => /\ i = cancel_at.i + 1
                     /\ Len(FileEvents) = cancel_at.i + 1
                     /\ FileEvents[cancel_at.i + 1].name =
                           basename(files[cancel_at.i + 1]))
            /\ (pc = "done" => LastEvent = CancelledEvent)
    /\ flag_reads \subseteq {"loop", "terminal"}

\* C7 witness: a run cancelled during a file that then succeeded, with files
\* left, has ended
C7_Witness ==
    /\ pc = "done"
    /\ is_cancelled
    /\ cancel_at.phase = "in_flight"
    /\ cancel_at.i + 1 < total_files
    /\ FileEvents[cancel_at.i + 1].ok

\* C8 (as claimed): the terminal summary of every finished run states the
\* number of succeeded files and the number of failed files (a summary
\* saying that all n files succeeded states both), and every per-file
\* failure event carries a non-empty reason.
C8_SummaryStatesCounts ==
    pc = "done"
    => /\ StatesNumber(LastEvent.msg, success_count)
       /\ \/ StatesNumber(LastEvent.msg, failed_count)
          \/ failed_count = 0 /\ LastEvent.msg[1] = Str("all")
       /\ \A k \in 1..Len(FileEvents) :
            ~FileEvents[k].ok => NonEmptyText(FileEvents[k].msg)

\* C9 (as claimed): a refresh with a configured client, begun when the cache
\* was stale, whose personal and public listings all failed, finishing while
\* that non-empty cache exists, returns the cached entries and leaves the
\* cache as it was.
C9_StaleCacheFallback ==
    [][\A l \in Loaders :
         (/\ loader[l].lpc = "store"
          /\ loader'[l].lpc = "done"
          /\ loader[l].backend_failed
          /\ ~voices_cache.none
          /\ voices_cache.voices # <<>>
          /\ loader[l].current_time - cache_timestamp >= CacheWindow)
         => /\ loaded'[l] = VoicesLoaded(voices_cache.voices)
            /\ voices_cache' = voices_cache]_vars

\* C10 (as claimed): a refresh with a configured client whose personal and
\* public listings all failed, finishing while no cache exists, fails, and
\* its thread emits load_error instead of a voice list.
C10_CatalogUnavailable ==
    [][\A l \in Loaders :
         (/\ loader[l].lpc = "store"
          /\ loader'[l].lpc = "done"
          /\ loader[l].backend_failed
          /\ voices_cache.none)
         => loaded'[l] = LoadError]_vars

(* ----------------------- reading the last call ------------------------- *)

\* the step is a call of the method op
CallOf(op) == last_call' # last_call /\ last_call'.op = op

\* the last call was get_available_voices and returned
Returned == last_call.op = "get_available_voices" /\ ~last_call.raised

\* C11: fresh cache. A get_available_voices call made while the cache holds
\* a list less than 300 seconds old returns that list, makes no listing
\* request and leaves the cache and its timestamp as they were (so of two
\* calls inside the window only the one that filled the cache asks the
\* backend).
C11_FreshCache ==
    [][(/\ ~voices_cache.none
        /\ now - cache_timestamp < CacheWindow
        /\ CallOf("get_available_voices"))
       => /\ ~last_call'.raised
          /\ last_call'.voices = voices_cache.voices
          /\ last_call'.requests = 0
          /\ voices_cache' = voices_cache
          /\ cache_timestamp' = cache_timestamp]_vars

\* C11 witness: a call has been served a non-empty list from a cache filled
\* by the backend some time before
C11_Witness ==
    /\ Returned
    /\ last_call.site = "cache"
    /\ last_call.requests = 0
    /\ last_call.age > 0
    /\ last_call.age < CacheWindow
    /\ last_call.voices # <<>>
    /\ voices_cache = Cached(last_call.voices)

\* C12: stale cache. With a configured client, a get_available_voices call
\* made when the cached list is 300 seconds old or older is not served from
\* the cache: it asks the backend, and when the refresh succeeds the cache
\* holds the returned list, stamped with the time of the call.
C12_StaleCacheRefetched ==
    [][(/\ ~voices_cache.none
        /\ now - cache_timestamp >= CacheWindow
        /\ Configured(fish_available, api_key, client)
        /\ CallOf("get_available_voices"))
       => /\ last_call'.site # "cache"
          /\ last_call'.requests >= 2
          /\ (last_call'.site = "backend"
                => /\ voices_cache' = Cached(last_call'.voices)
                   /\ cache_timestamp' = now)]_vars

\* C12 witness: a call made at the age of exactly 300 seconds has refreshed
\* the cache
C12_Witness ==
    /\ Returned
    /\ last_call.age = CacheWindow
    /\ last_call.site = "backend"
    /\ last_call.voices # <<>>
    /\ cache_timestamp = now

\* C13: invalidation. clear_cache() and set_api_key(k) leave the cache None
\* and the timestamp 0, and the first get_available_voices after either of
\* them is never served the list that was cached before, neither as a fresh
\* cache nor as the fallback of a failed refresh.
C13_Invalidation ==
    /\ [](last_call.op \in {"clear_cache", "set_api_key"}
            => voices_cache = NoCache /\ cache_timestamp = 0)
    /\ [][(/\ last_call.op \in {"clear_cache", "set_api_key"}
            /\ CallOf("get_available_voices"))
           => last_call'.site \in {"mock", "backend", "raise"}]_vars

\* C13 witness: a list less than 300 seconds old was dropped by an
\* invalidation, and the next call has fetched a new one
C13_Witness ==
    /\ Returned
    /\ last_call.after = "fresh list dropped"
    /\ last_call.site = "backend"

\* C14 (as claimed): after every get_available_voices call that returned,
\* in every mode, the cache is not None and holds the returned list.
C14_CachePopulated ==
    Returned
    => /\ ~voices_cache.none
       /\ voices_cache.voices = last_call.voices

(* --------------------- reading a list of voices ------------------------ *)

\* the order the claim describes: private first, then trained first, then
\* like counts not increasing
Ranked(voices) ==
    \A a, b \in 1..Len(voices) :
        a < b =>
          /\ (voices[b].visibility = "private"
                => voices[a].visibility = "private")
          /\ (voices[a].visibility = voices[b].visibility
               /\ voices[b].state = "trained"
                => voices[a].state = "trained")
          /\ (voices[a].visibility = voices[b].visibility
               /\ voices[a].state = voices[b].state
                => LikeOf(voices[a]) >= LikeOf(voices[b]))

\* post holds the entries of pre, those equal on the three keys in the
\* order they have in pre
StablyReordered(pre, post) ==
    /\ Len(post) = Len(pre)
    /\ \A k \in 1..Len(pre) : \E j \in 1..Len(post) : post[j] = pre[k]
    /\ \A p, q \in 1..Len(pre) :
         (p < q /\ RankKey(pre[p]) = RankKey(pre[q]))
         => \E a, b \in 1..Len(post) :
               a < b /\ post[a] = pre[p] /\ post[b] = pre[q]

\* the example of the ranking: private trained with 5 likes, public trained
\* with 100, private untrained with 1
RankExample ==
    <<Voice("x1", "private", "trained", "int", 5, ""),
      Voice("x2", "public", "trained", "int", 100, ""),
      Voice("x3", "private", "other", "int", 1, "")>>

RankExampleSorted == <<RankExample[1], RankExample[3], RankExample[2]>>

\* the ids of a list are pairwise different
UniqueIds(voices) ==
    \A a, b \in 1..Len(voices) : a # b => voices[a].id # voices[b].id

\* C15: ranking of a successful refresh. The list a refresh returns has
\* every private entry before every other entry, within equal visibility
\* the trained entries first, within equal visibility and state like counts
\* not increasing (a missing like_count counting as 0), entries equal on
\* the three keys in their merge order; and the example list is ranked as
\* stated.
C15_Ranking ==
    /\ (Returned /\ last_call.site = "backend")
         => /\ Ranked(last_call.voices)
            /\ StablyReordered(last_call.merged, last_call.voices)
    /\ SortedBy(RankExample, "rank") = RankExampleSorted

\* C15 witness: a refresh has returned personal and public voices, among
\* them two public ones with the same like count and an untrained one with
\* more likes than the trained ones after which it is ranked
C15_Witness ==
    /\ Returned
    /\ last_call.site = "backend"
    /\ last_call.merged # last_call.voices
    /\ \E a, b, c, d \in 1..Len(last_call.voices) :
         /\ a < b /\ b < c /\ c < d
         /\ last_call.voices[a].visibility = "private"
         /\ last_call.voices[b].visibility = "public"
         /\ last_call.voices[c].visibility = "public"
         /\ RankKey(last_call.voices[b]) = RankKey(last_call.voices[c])
         /\ last_call.voices[d].state # "trained"
         /\ LikeOf(last_call.voices[d]) > LikeOf(last_call.voices[b])

\* C16 (as claimed): the list a refresh hands over holds no two entries
\* with the same id, whatever the backend answered.
C16_UniqueIds ==
    \A l \in Loaders :
        loaded[l].sig = "voices_loaded" => UniqueIds(loaded[l].voices)

\* C17 (as claimed): validate_voice_id never raises; it answers True
\* whenever the catalogue could not be retrieved because every listing
\* request failed, and when the catalogue was retrieved it answers True
\* exactly when an entry has the id.
C17_FailOpenValidation ==
    last_call.op = "validate_voice_id"
    => /\ ~last_call.raised
       /\ (last_call.unreachable => last_call.valid)
       /\ (~last_call.unreachable /\ last_call.site # "raise"
             => (last_call.valid
                  <=> HasId(last_call.voices, last_call.voice)))

\* the event of a file whose text is empty after trimming
EmptyContentEvent(p) ==
    FileProcessed(basename(p), FALSE, <<Str("file content is empty")>>)

\* C18: whitespace-only input. When the text read for file i is empty after
\* trimming, the worker emits the empty-content failure event of file i,
\* adds one to failed_count and goes to the loop head of file i+1; no
\* generate_audio or save_audio call and no write exists for a file with
\* that event.
C18_WhitespaceOnlyInput ==
    /\ [][(/\ pc = "read"
            /\ pc' \notin {"read", "handler"}
            /\ strip(text_content') = "")
           => /\ events' = Append(events, EmptyContentEvent(files[i + 1]))
              /\ failed_count' = failed_count + 1
              /\ success_count' = success_count
              /\ i' = i + 1
              /\ pc' = "loop"]_vars
    /\ [](\A k \in 1..Len(FileEvents) :
            FileEvents[k] = EmptyContentEvent(files[k])
            => /\ <<"generate", k>> \notin calls
               /\ <<"save", k>> \notin calls
               /\ \A w \in 1..Len(writes) : writes[w].file # k)

\* C18 witness: a file with blank content has its failure event and the
\* file after it has been synthesised
C18_Witness ==
    \E k \in 1..Len(FileEvents) :
        /\ FileEvents[k] = EmptyContentEvent(files[k])
        /\ <<"read", k>> \in calls
        /\ <<"generate", k + 1>> \in calls

\* the three warnings of start_batch_processing
StartWarnings ==
    {"warning: select a folder", "warning: select a voice",
     "warning: select a valid voice"}

\* C19: start guard. While the file list is empty or the voice id is empty
\* or absent no worker exists and no signal has been emitted, and a start
\* request in such a state only shows a warning: batch_thread, the buttons
\* and every field of the run stay as they are.
C19_StartGuard ==
    /\ []((text_files = <<>> \/ voice_combo \in {"NoItem", ""})
            => /\ batch_thread = "None"
               /\ pc = "none"
               /\ events = <<>>
               /\ ~stop_btn)
    /\ [][(start_btn /\ (text_files = <<>> \/ voice_combo \in {"NoItem", ""}))
           => /\ dialog' \in StartWarnings
              /\ UNCHANGED <<start_btn, stop_btn, batch_thread, cfgVars,
                             runVars, obsVars, is_cancelled, cancel_at>>]_vars

\* C19 witness: a start request with an empty file list has been rejected
C19_Witness ==
    /\ dialog = "warning: select a folder"
    /\ text_files = <<>>
    /\ start_btn
    /\ batch_thread = "None"
    /\ events = <<>>

\* C20: input validation of generate_audio. A call whose text is empty
\* after trimming or whose voice id is empty or None raises ValueError and
\* has done nothing else: no backend request, no simulated delay, no
\* placeholder payload, with and without a configured client.
C20_GenerateAudioValidation ==
    (/\ last_call.op = "generate_audio"
     /\ (strip(last_call.text) = "" \/ NoVoice(last_call.voice)))
    => /\ last_call.raised
       /\ last_call.value \in {"ValueError: text", "ValueError: voice"}
       /\ last_call.did = {}

\* C20 witness: on a generator with a configured client a call with a
\* blank text and a voice id has been rejected
C20_Witness ==
    /\ Configured(fish_available, api_key, client)
    /\ last_call.op = "generate_audio"
    /\ last_call.text = "   "
    /\ last_call.voice = "voice_1"
    /\ last_call.raised
    /\ last_call.did = {}

\* C21: a generator whose client is None never asks the backend:
\* get_available_voices returns the five example voices, and generate_audio
\* with a non-blank text and a voice id returns the placeholder payload of
\* 44 + 2048 bytes without a TTS request.
C21_OfflineMode ==
    client = "None" =>
      /\ last_call.op \in {"get_available_voices", "validate_voice_id"} =>
            /\ ~last_call.raised
            /\ last_call.requests = 0
            /\ Len(last_call.voices) = 5
            /\ [k \in 1..5 |-> last_call.voices[k].id]
                 = <<"voice_1", "voice_2", "voice_3", "voice_4", "voice_5">>
      /\ (/\ last_call.op = "generate_audio"
          /\ strip(last_call.text) # ""
          /\ ~NoVoice(last_call.voice)) =>
            /\ ~last_call.raised
            /\ last_call.value = "dummy_wav"
            /\ "tts" \notin last_call.did
            /\ dummy_audio_header = 44
            /\ dummy_audio_header + dummy_audio_zeros > 0

\* a generator that has a key but no client returned the placeholder
C21_Witness ==
    /\ client = "None"
    /\ api_key = "k1"
    /\ last_call.op = "generate_audio"
    /\ last_call.text = "text"
    /\ last_call.voice = "voice_1"
    /\ last_call.value = "dummy_wav"

\* C22: batch_generate returns one result per text, in the order of the
\* texts: generate_audio is called once for every index, in order, also
\* after a failure; the result at an index is the audio of that call, or
\* None when that call raised; an empty list returns [] and nothing raises.
C22_BatchGenerate ==
    last_call.op = "batch_generate" =>
      /\ ~last_call.raised
      /\ Len(last_call.results) = Len(last_call.texts)
      /\ Len(last_call.log) = Len(last_call.texts)
      /\ \A k \in 1..Len(last_call.texts) :
            /\ last_call.log[k].index = k
            /\ last_call.log[k].text = last_call.texts[k]
            /\ last_call.log[k].raised <=> (last_call.results[k] = "None")
            /\ ~last_call.log[k].raised =>
                  /\ last_call.results[k] = last_call.log[k].value
                  /\ last_call.results[k] \in {"audio", "dummy_wav"}
      /\ (last_call.texts = <<>>) => (last_call.results = <<>>)

\* a batch whose first text failed and whose second text was generated
C22_Witness ==
    /\ last_call.op = "batch_generate"
    /\ last_call.texts = <<"", "text">>
    /\ last_call.results = <<"None", "audio">>

\* C23: when save_audio(b, get_output_path(p, "wav")) returns, a read of
\* that path returns exactly b; save_audio with empty or None data raises
\* ValueError and leaves the folder and its files as they were.
C23_WriteRoundTrip ==
    last_save.op = "save_audio" =>
      /\ last_save.path = Path(last_save.input.stem, "wav")
      /\ (last_save.data \notin {"", "None"} /\ last_save.raised = "") =>
            read_bytes(disk, last_save.path) = last_save.data
      /\ (last_save.data \in {"", "None"}) =>
            /\ last_save.raised = "ValueError"
            /\ disk = last_save.before

\* a payload was written over a file holding other bytes and read back
C23_Witness ==
    /\ last_save.op = "save_audio"
    /\ last_save.raised = ""
    /\ last_save.data = "audio"
    /\ last_save.before.files[last_save.path] = "dummy_wav"
    /\ read_bytes(disk, last_save.path) = "audio"

\* C24 (as claimed): in every iteration the progress signal (i, total) is
\* emitted before is_cancelled is examined: once the flag has been examined
\* for file i and the iteration goes on, and once the loop was left through
\* the break at file i, progress (i, total) has been emitted.
C24_ProgressBeforeCancelCheck ==
    /\ pc = "progress" =>
          \E k \in 1..Len(events) :
              events[k] = ProgressUpdated(i, total_files)
    /\ StoppedByCancel =>
          \E k \in 1..Len(events) :
              events[k] = ProgressUpdated(i, total_files)

\* C25 (as claimed): a run that left the loop through the break, before
\* every file was attempted, emits no progress signal whose current value
\* is the total.
C25_FinalProgressOnlyOnCompletion ==
    (StoppedByCancel /\ Entered # 1..total_files) =>
       \A k \in 1..Len(events) :
          IsProgressEvent(events[k]) => events[k].cur # total_files

\* the files (1-based) whose per-file signal reports success
Succeeded == {f \in 1..Len(FileEvents) : FileEvents[f].ok}

\* the paths save_audio has written the audio of file f to
WrittenPaths(f) ==
    {writes[k].path : k \in {m \in 1..Len(writes) :
                                writes[m].file = f /\ writes[m].data # ""}}

\* C29 (as claimed): two distinct input files of one run that both emitted
\* a success signal were written to two distinct output paths.
C29_NoOutputCollision ==
    \A f, g \in Succeeded :
       f # g => WrittenPaths(f) \cap WrittenPaths(g) = {}

\* C30: a run that ended without cancel() being called has emitted
\* finished(True, ...) when failed_count = 0 and finished(success_count > 0,
\* ...) otherwise: False when every file failed, True when at least one file
\* succeeded.
C30_TerminalSuccessFlag ==
    (pc = "done" /\ ~is_cancelled) =>
       /\ IsFinishedEvent(LastEvent)
       /\ failed_count = 0 => LastEvent.ok
       /\ failed_count > 0 => (LastEvent.ok <=> success_count > 0)
       /\ (total_files > 0 /\ Succeeded = {}) => ~LastEvent.ok
       /\ Succeeded # {} => LastEvent.ok

\* an uncancelled run with a succeeded and a failed file has ended
C30_Witness ==
    /\ pc = "done"
    /\ ~is_cancelled
    /\ success_count > 0
    /\ failed_count > 0
    /\ LastEvent.ok

\* the VoiceLoadThreads whose get_available_voices call has not returned
InFlightLoaders == {l \in Loaders : loader[l].lpc \notin {"none", "done"}}

\* C26 (as claimed): at most one VoiceLoadThread is running
\* get_available_voices on the shared generator at any time.
C26_NoOverlappingRefresh == Cardinality(InFlightLoaders) <= 1

\* C27 (as claimed): once no refresh is in flight, every entry of the cache
\* of a generator with a client was fetched with the credential of that
\* client.
C27_NoOldCredentialVoices ==
    (InFlightLoaders = {} /\ client # "None") =>
       \A k \in 1..Len(voices_cache.voices) :
          voices_cache.voices[k].cred = client

\* C28 (as claimed): while batch_thread refers to a worker, from its start
\* to on_batch_finished, the start button is disabled and no second
\* BatchProcessThread is made.
C28_SingleBatch ==
    /\ batch_thread # "None" => ~start_btn
    /\ batch_thread # "Second"

====
